---- MODULE Spec2Model ----
(***************************************************************************)
(* Model of iocore/utils/Machine.cc: the process-wide Machine singleton    *)
(* (Machine::instance, Machine::init) and the Machine constructor, which   *)
(* picks the best IPv4 / IPv6 interface address and the default address.   *)
(***************************************************************************)
EXTENDS Integers, Sequences, FiniteSets, TLC

\* ---------------------------------------------------------------- bounds
\* Longest interface list getifaddrs() hands back in the sequential model.
MaxIfs == 3
\* Longest interface list in the model with overlapping init() calls.
MaxIfsConc == 1

Threads == {"T1", "T2"}

\* ------------------------------------------------------------ addresses
\* A sockaddr is modelled by its family and its textual value.
NullSockaddr == [family |-> "NULL", text |-> ""]
ZeroAddr == [family |-> "AF_UNSPEC", text |-> ""]
NonIp == [family |-> "AF_PACKET", text |-> "02:00:00:00:00:01"]

Ip4Addrs ==
  { [family |-> "AF_INET", text |-> x] :
      x \in {"127.0.0.1", "10.1.2.3", "224.0.0.1", "8.8.8.8", "8.8.4.4"} }

Ip6Addrs ==
  { [family |-> "AF_INET6", text |-> x] :
      x \in {"::1", "fc00::1", "ff02::1", "2001:db8::1", "2001:db8::2"} }

IpAddrs == Ip4Addrs \cup Ip6Addrs

\* What one entry of the interface list can hold: every type of IPv4
\* address, two of them of one type, IPv6 addresses of two types, two of them
\* of one type, and an entry that is no IP address.
Candidates ==
  Ip4Addrs
    \cup { [family |-> "AF_INET6", text |-> x] :
             x \in {"fc00::1", "2001:db8::1", "2001:db8::2"} }
    \cup {NonIp}

\* What a caller can pass as the ip argument of Machine::init.
InitAddrs == IpAddrs \cup {NonIp, NullSockaddr}

\* The ip arguments tried when init() calls overlap.
InitAddrsConc ==
  { NullSockaddr, [family |-> "AF_INET", text |-> "8.8.8.8"],
    [family |-> "AF_INET6", text |-> "::1"] }

ink_inet_is_ip4(a) == a.family = "AF_INET"
ink_inet_is_ip6(a) == a.family = "AF_INET6"
ink_inet_is_ip(a) == ink_inet_is_ip4(a) \/ ink_inet_is_ip6(a)
ink_inet_is_loopback(a) == ink_inet_is_ip(a) /\ a.text \in {"127.0.0.1", "::1"}
ink_inet_is_nonroutable(a) == ink_inet_is_ip(a) /\ a.text \in {"10.1.2.3", "fc00::1"}
ink_inet_is_multicast(a) == ink_inet_is_ip(a) /\ a.text \in {"224.0.0.1", "ff02::1"}

\* ink_inet_copy(dst, src): copies an IP address, otherwise invalidates dst.
ink_inet_copy(dst, src) ==
  IF ink_inet_is_ip(src) THEN src ELSE [dst EXCEPT !.family = "AF_UNSPEC"]

\* -------------------------------------------------------------- strings
NullStr == "(null)"
\* The constructor's local buffer: its content before any call fills it, and
\* the value of a char pointer that points at it.
Uninit == "(uninitialized)"
LocalhostBuf == "&localhost"
Names == {"proxy.example.com"}
LocalHostname == "localhost.localdomain"
ReverseName == "resolved.example.com"
InitNames == Names \cup {NullStr}

strlen(s) == Len(s)
ats_strdup(s) == s

\* --------------------------------------------------------------- ranks
NA == 0
LO == 1
NR == 2
MC == 3
GA == 4
Ranks == {NA, LO, NR, MC, GA}

\* ------------------------------------------------------------ assertions
MsgInstance == "Machine instance accessed before initialization"
MsgInitTwice == "Machine instance initialized twice."
MsgGethostname == "!gethostname(localhost, sizeof(localhost)-1)"

ink_assert(EX) == IF EX THEN "pass" ELSE "abort"
ink_release_assert(EX) == IF EX THEN "pass" ELSE "abort"

\* ---------------------------------------------------------------- state
NULL == 0
NoRet == -1

VARIABLES
  _instance,  \* Machine::_instance: NULL or the index of a heap object
  heap,       \* the Machine objects allocated by new, in allocation order
  frame,      \* per thread: where it is in init()/Machine() and its locals
  ret,        \* the value the last returning instance() returned, or NoRet
  aborted     \* "" while the process runs, else the failed assertion

vars == <<_instance, heap, frame, ret, aborted>>

IdleFrame ==
  [pc |-> "idle", the_hostname |-> NullStr, addr |-> NullSockaddr,
   this |-> NULL, localhost |-> Uninit, status |-> 0, ifa_addrs |-> <<>>, spot |-> 0,
   ip4_type |-> NA, ip6_type |-> NA]

\* The object after the member initialisers and ink_zero calls.
ZeroMachine ==
  [hostname |-> NullStr, hostname_len |-> 0,
   ip |-> ZeroAddr, ip4 |-> ZeroAddr, ip6 |-> ZeroAddr]

Init ==
  /\ _instance = NULL
  /\ heap = <<>>
  /\ frame = [t \in Threads |-> IdleFrame]
  /\ ret = NoRet
  /\ aborted = ""

Running == aborted = ""

\* Thread t fails an assertion and the process dies: no thread runs any
\* further. Of the threads only the one at the assertion is kept.
Abort(t, msg) ==
  /\ aborted' = msg
  /\ frame' = [u \in Threads |-> IF u = t THEN frame[t] ELSE IdleFrame]
  /\ UNCHANGED <<_instance, heap, ret>>

\* instance() without the assertion of line 37.
Instance_NoAssert(t) ==
  /\ Running
  /\ frame[t].pc = "idle"
  /\ ret' = _instance
  /\ UNCHANGED <<_instance, heap, frame, aborted>>

\* ------------------------------------------------------ Machine::instance
Instance(t) ==
  /\ Running
  /\ frame[t].pc = "idle"
  /\ IF ink_assert(_instance # NULL) = "abort"
       THEN Abort(t, MsgInstance)
       ELSE /\ ret' = _instance
            /\ UNCHANGED <<_instance, heap, frame, aborted>>

\* ---------------------------------------------------------- Machine::init
InitCallN(t, addrs) ==
  /\ Running
  /\ frame[t].pc = "idle"
  /\ \E name \in InitNames, ip \in addrs :
       frame' = [frame EXCEPT ![t] =
                   [IdleFrame EXCEPT !.pc = "init", !.the_hostname = name,
                                     !.addr = ip]]
  /\ UNCHANGED <<_instance, heap, ret, aborted>>

\* init() calls made one after another: none starts while one is running.
InitCall(t) ==
  /\ \A u \in Threads : frame[u].pc = "idle"
  /\ InitCallN(t, InitAddrs)

\* init() called whatever the other threads are doing.
InitCallConc(t) == InitCallN(t, InitAddrsConc)

\* init() without the assertion of line 43.
InitAssert_NoCheck(t) ==
  /\ Running
  /\ frame[t].pc = "init"
  /\ heap' = Append(heap, ZeroMachine)
  /\ frame' = [frame EXCEPT ![t].this = Len(heap) + 1, ![t].pc = "ctor"]
  /\ UNCHANGED <<_instance, ret, aborted>>

\* Line 43, then operator new and the start of the constructor (49-62).
InitAssert(t) ==
  /\ Running
  /\ frame[t].pc = "init"
  /\ IF ink_assert(_instance = NULL) = "abort"
       THEN Abort(t, MsgInitTwice)
       ELSE /\ heap' = Append(heap, ZeroMachine)
            /\ frame' = [frame EXCEPT ![t].this = Len(heap) + 1,
                                      ![t].pc = "ctor"]
            /\ UNCHANGED <<_instance, ret, aborted>>

\* ------------------------------------------------------- Machine::Machine
\* Lines 121-125: the type of one interface address.
classify(ifip) ==
  IF ~ink_inet_is_ip(ifip) THEN NA
  ELSE IF ink_inet_is_loopback(ifip) THEN LO
  ELSE IF ink_inet_is_nonroutable(ifip) THEN NR
  ELSE IF ink_inet_is_multicast(ifip) THEN MC
  ELSE GA

\* The loop body with the IPv6 branch testing ip4_type.
consider_WrongType(st, ifip) ==
  LET spot_type == classify(ifip) IN
  IF spot_type = NA THEN st
  ELSE IF ink_inet_is_ip4(ifip)
    THEN IF spot_type > st.ip4_type
           THEN [st EXCEPT !.ip4 = ink_inet_copy(st.ip4, ifip),
                           !.ip4_type = spot_type]
           ELSE st
  ELSE IF ink_inet_is_ip6(ifip)
    THEN IF spot_type > st.ip4_type
           THEN [st EXCEPT !.ip6 = ink_inet_copy(st.ip6, ifip),
                           !.ip6_type = spot_type]
           ELSE st
  ELSE st

\* The loop body replacing the stored address on an equal type as well.
consider_OrEqual(st, ifip) ==
  LET spot_type == classify(ifip) IN
  IF spot_type = NA THEN st
  ELSE IF ink_inet_is_ip4(ifip)
    THEN IF spot_type >= st.ip4_type
           THEN [st EXCEPT !.ip4 = ink_inet_copy(st.ip4, ifip),
                           !.ip4_type = spot_type]
           ELSE st
  ELSE IF ink_inet_is_ip6(ifip)
    THEN IF spot_type >= st.ip6_type
           THEN [st EXCEPT !.ip6 = ink_inet_copy(st.ip6, ifip),
                           !.ip6_type = spot_type]
           ELSE st
  ELSE st

\* Lines 121-139: one pass of the loop body over the running bests
\* st = [ip4, ip4_type, ip6, ip6_type].
consider(st, ifip) ==
  LET spot_type == classify(ifip) IN
  IF spot_type = NA THEN st
  ELSE IF ink_inet_is_ip4(ifip)
    THEN IF spot_type > st.ip4_type
           THEN [st EXCEPT !.ip4 = ink_inet_copy(st.ip4, ifip),
                           !.ip4_type = spot_type]
           ELSE st
  ELSE IF ink_inet_is_ip6(ifip)
    THEN IF spot_type > st.ip6_type
           THEN [st EXCEPT !.ip6 = ink_inet_copy(st.ip6, ifip),
                           !.ip6_type = spot_type]
           ELSE st
  ELSE st

\* The general address preferring IPv6 on equal types.
choose_Strict(ip, ip4, ip4_type, ip6, ip6_type) ==
  IF ip4_type > ip6_type THEN ink_inet_copy(ip, ip4)
  ELSE ink_inet_copy(ip, ip6)

\* Lines 146-150: the general address.
choose(ip, ip4, ip4_type, ip6, ip6_type) ==
  IF ip4_type >= ip6_type THEN ink_inet_copy(ip, ip4)
  ELSE ink_inet_copy(ip, ip6)

\* Every interface list of at most n entries.
IfLists(n) == UNION { [1..k -> Candidates] : k \in 0..n }

\* The hostname step going on after a failed gethostname.
CtorHostname_NoAbort(t) ==
  /\ Running
  /\ frame[t].pc = "ctor"
  /\ ~ink_inet_is_ip(frame[t].addr)
  /\ IF frame[t].the_hostname = NullStr
       THEN \E rc \in {0, -1} :
              LET buf == IF rc = 0 THEN LocalHostname ELSE frame[t].localhost
              IN /\ frame' = [frame EXCEPT ![t].localhost = buf,
                                           ![t].the_hostname = LocalhostBuf,
                                           ![t].pc = "enum"]
                 /\ heap' = [heap EXCEPT ![frame[t].this].hostname =
                                            ats_strdup(buf)]
       ELSE /\ frame' = [frame EXCEPT ![t].pc = "enum"]
            /\ heap' = [heap EXCEPT ![frame[t].this].hostname =
                                       ats_strdup(frame[t].the_hostname)]
  /\ UNCHANGED <<_instance, ret, aborted>>

\* Lines 64-69, no address provided: the hostname.
CtorHostname(t) ==
  /\ Running
  /\ frame[t].pc = "ctor"
  /\ ~ink_inet_is_ip(frame[t].addr)
  /\ IF frame[t].the_hostname = NullStr
       THEN \E rc \in {0, -1} :
              IF ink_release_assert(rc = 0) = "abort"
                THEN Abort(t, MsgGethostname)
                ELSE /\ frame' = [frame EXCEPT ![t].localhost = LocalHostname,
                                               ![t].the_hostname = LocalhostBuf,
                                               ![t].pc = "enum"]
                     /\ heap' = [heap EXCEPT ![frame[t].this].hostname =
                                                ats_strdup(LocalHostname)]
                     /\ UNCHANGED <<_instance, ret, aborted>>
       ELSE /\ frame' = [frame EXCEPT ![t].pc = "enum"]
            /\ heap' = [heap EXCEPT ![frame[t].this].hostname =
                                       ats_strdup(frame[t].the_hostname)]
            /\ UNCHANGED <<_instance, ret, aborted>>

\* getifaddrs with its failure treated as fatal.
CtorEnumerateN_Fatal(t, n) ==
  /\ Running
  /\ frame[t].pc = "enum"
  /\ \E st \in {0, -1} :
       IF st # 0
         THEN Abort(t, "0 == status")
         ELSE /\ \E list \in IfLists(n) :
                   frame' = [frame EXCEPT ![t].status = st,
                                          ![t].ifa_addrs = list,
                                          ![t].spot = 1,
                                          ![t].ip4_type = NA,
                                          ![t].ip6_type = NA,
                                          ![t].pc = "loop"]
              /\ UNCHANGED <<_instance, heap, ret, aborted>>

\* Lines 71-98 and the loop set-up of 106-110: getifaddrs.
CtorEnumerateN(t, n) ==
  /\ Running
  /\ frame[t].pc = "enum"
  /\ \E st \in {0, -1} :
       IF st # 0
         THEN frame' = [frame EXCEPT ![t].status = st, ![t].pc = "finish"]
         ELSE \E list \in IfLists(n) :
                frame' = [frame EXCEPT ![t].status = st,
                                       ![t].ifa_addrs = list,
                                       ![t].spot = 1,
                                       ![t].ip4_type = NA,
                                       ![t].ip6_type = NA,
                                       ![t].pc = "loop"]
  /\ UNCHANGED <<_instance, heap, ret, aborted>>

CtorEnumerate(t) == CtorEnumerateN(t, MaxIfs)

CtorEnumerateConc(t) == CtorEnumerateN(t, MaxIfsConc)

\* Lines 108-140: one iteration of the loop.
CtorLoop(t) ==
  /\ Running
  /\ frame[t].pc = "loop"
  /\ frame[t].spot <= Len(frame[t].ifa_addrs)
  /\ LET f == frame[t]
         m == heap[f.this]
         r == consider([ip4 |-> m.ip4, ip4_type |-> f.ip4_type,
                        ip6 |-> m.ip6, ip6_type |-> f.ip6_type],
                       f.ifa_addrs[f.spot])
     IN /\ heap' = [heap EXCEPT ![f.this].ip4 = r.ip4, ![f.this].ip6 = r.ip6]
        /\ frame' = [frame EXCEPT ![t].ip4_type = r.ip4_type,
                                  ![t].ip6_type = r.ip6_type,
                                  ![t].spot = f.spot + 1]
  /\ UNCHANGED <<_instance, ret, aborted>>

\* Lines 142-151: the loop is over; freeifaddrs releases the list, the
\* general address is chosen and the block's locals go out of scope.
CtorChoose(t) ==
  /\ Running
  /\ frame[t].pc = "loop"
  /\ frame[t].spot > Len(frame[t].ifa_addrs)
  /\ LET f == frame[t]
         m == heap[f.this]
     IN heap' = [heap EXCEPT ![f.this].ip =
                   choose(m.ip, m.ip4, f.ip4_type, m.ip6, f.ip6_type)]
  /\ frame' = [frame EXCEPT ![t].ifa_addrs = <<>>,
                            ![t].spot = 0,
                            ![t].ip4_type = NA,
                            ![t].ip6_type = NA,
                            ![t].pc = "finish"]
  /\ UNCHANGED <<_instance, ret, aborted>>

\* The address branch without the copies of lines 154-155.
CtorAddr_NoFamilyCopy(t) ==
  /\ Running
  /\ frame[t].pc = "ctor"
  /\ ink_inet_is_ip(frame[t].addr)
  /\ \E st \in {0, -2} :
       LET f == frame[t]
           m == heap[f.this]
           m1 == [m EXCEPT !.ip = ink_inet_copy(m.ip, f.addr)]
           m3 == IF st # 0 THEN m1
                 ELSE [m1 EXCEPT !.hostname = ats_strdup(ReverseName)]
       IN /\ heap' = [heap EXCEPT ![f.this] = m3]
          /\ frame' = [frame EXCEPT ![t].status = st,
                                    ![t].localhost =
                                      IF st # 0 THEN f.localhost ELSE ReverseName,
                                    ![t].pc = "finish"]
  /\ UNCHANGED <<_instance, ret, aborted>>

\* The address branch storing the address under the other family.
CtorAddr_SwappedFamily(t) ==
  /\ Running
  /\ frame[t].pc = "ctor"
  /\ ink_inet_is_ip(frame[t].addr)
  /\ \E st \in {0, -2} :
       LET f == frame[t]
           m == heap[f.this]
           m1 == [m EXCEPT !.ip = ink_inet_copy(m.ip, f.addr)]
           m2 == IF ink_inet_is_ip4(f.addr)
                   THEN [m1 EXCEPT !.ip6 = ink_inet_copy(m.ip6, f.addr)]
                 ELSE IF ink_inet_is_ip6(f.addr)
                   THEN [m1 EXCEPT !.ip4 = ink_inet_copy(m.ip4, f.addr)]
                 ELSE m1
           m3 == IF st # 0 THEN m2
                 ELSE [m2 EXCEPT !.hostname = ats_strdup(ReverseName)]
       IN /\ heap' = [heap EXCEPT ![f.this] = m3]
          /\ frame' = [frame EXCEPT ![t].status = st,
                                    ![t].localhost =
                                      IF st # 0 THEN f.localhost ELSE ReverseName,
                                    ![t].pc = "finish"]
  /\ UNCHANGED <<_instance, ret, aborted>>

\* Lines 152-172: address provided.
CtorAddr(t) ==
  /\ Running
  /\ frame[t].pc = "ctor"
  /\ ink_inet_is_ip(frame[t].addr)
  /\ \E st \in {0, -2} :
       LET f == frame[t]
           m == heap[f.this]
           m1 == [m EXCEPT !.ip = ink_inet_copy(m.ip, f.addr)]
           m2 == IF ink_inet_is_ip4(f.addr)
                   THEN [m1 EXCEPT !.ip4 = ink_inet_copy(m.ip4, f.addr)]
                 ELSE IF ink_inet_is_ip6(f.addr)
                   THEN [m1 EXCEPT !.ip6 = ink_inet_copy(m.ip6, f.addr)]
                 ELSE m1
           m3 == IF st # 0 THEN m2
                 ELSE [m2 EXCEPT !.hostname = ats_strdup(ReverseName)]
       IN /\ heap' = [heap EXCEPT ![f.this] = m3]
          /\ frame' = [frame EXCEPT ![t].status = st,
                                    ![t].localhost =
                                      IF st # 0 THEN f.localhost ELSE ReverseName,
                                    ![t].pc = "finish"]
  /\ UNCHANGED <<_instance, ret, aborted>>

\* Lines 174-179: hostname_len; the constructor returns.
CtorFinish(t) ==
  /\ Running
  /\ frame[t].pc = "finish"
  /\ LET m == heap[frame[t].this] IN
       heap' = [heap EXCEPT ![frame[t].this].hostname_len =
                  IF m.hostname # NullStr THEN strlen(m.hostname) ELSE 0]
  /\ frame' = [frame EXCEPT ![t].pc = "install"]
  /\ UNCHANGED <<_instance, ret, aborted>>

\* Line 44: the assignment to Machine::_instance.
InitInstall(t) ==
  /\ Running
  /\ frame[t].pc = "install"
  /\ _instance' = frame[t].this
  /\ frame' = [frame EXCEPT ![t].pc = "return"]
  /\ UNCHANGED <<heap, ret, aborted>>

\* Line 45: init() returns to its caller.
InitReturn(t) ==
  /\ Running
  /\ frame[t].pc = "return"
  /\ frame' = [frame EXCEPT ![t] = IdleFrame]
  /\ UNCHANGED <<_instance, heap, ret, aborted>>

\* ------------------------------------------------------- specifications
\* One thread at a time is inside init(); instance() may be called by any
\* idle thread at any moment.
Next ==
  \E t \in Threads :
    \/ Instance(t)
    \/ InitCall(t)
    \/ InitAssert(t)
    \/ CtorHostname(t)
    \/ CtorEnumerate(t)
    \/ CtorLoop(t)
    \/ CtorChoose(t)
    \/ CtorAddr(t)
    \/ CtorFinish(t)
    \/ InitInstall(t)
    \/ InitReturn(t)

Spec == Init /\ [][Next]_vars

\* init() calls of different threads may overlap.
NextConc ==
  \E t \in Threads :
    \/ Instance(t)
    \/ InitCallConc(t)
    \/ InitAssert(t)
    \/ CtorHostname(t)
    \/ CtorEnumerateConc(t)
    \/ CtorLoop(t)
    \/ CtorChoose(t)
    \/ CtorAddr(t)
    \/ CtorFinish(t)
    \/ InitInstall(t)
    \/ InitReturn(t)

SpecConc == Init /\ [][NextConc]_vars

\* ------------------------------------------------------------- helpers
Max(S) == CHOOSE x \in S : \A y \in S : y <= x
Min(S) == CHOOSE x \in S : \A y \in S : x <= y

\* The positions among the first k entries of list that hold family fam.
OfFamily(list, k, fam) == { i \in 1..k : list[i].family = fam }

\* The highest type among the first k entries of family fam, NA if none.
MaxRank(list, k, fam) ==
  Max({NA} \cup { classify(list[i]) : i \in OfFamily(list, k, fam) })

\* The earliest entry of family fam that has the highest type, if usable.
FirstBest(list, k, fam) ==
  LET r == MaxRank(list, k, fam) IN
  IF r = NA THEN ZeroAddr
  ELSE list[Min({ i \in OfFamily(list, k, fam) : classify(list[i]) = r })]

\* Lines 106-140 as a whole: the bests after the first k entries of list.
RECURSIVE Scan(_, _)
Scan(list, k) ==
  IF k = 0
    THEN [ip4 |-> ZeroAddr, ip4_type |-> NA, ip6 |-> ZeroAddr, ip6_type |-> NA]
    ELSE consider(Scan(list, k - 1), list[k])

Permuted(list, p) == [i \in 1..Len(list) |-> list[p[i]]]

This(t) == heap[frame[t].this]

\* The constructor of thread t is past the branch of line 64.
Built(t) == frame[t].pc \in {"finish", "install", "return"}

\* Thread t walks the interface list; Walked(t) entries are behind it.
InLoop(t) == frame[t].pc = "loop"
Walked(t) == frame[t].spot - 1
LoopDone(t) == InLoop(t) /\ Walked(t) = Len(frame[t].ifa_addrs)

\* Thread t took the enumeration path, getifaddrs succeeded and the loop and
\* the choice of the general address are behind it.
Enumerated(t) ==
  Built(t) /\ ~ink_inet_is_ip(frame[t].addr) /\ frame[t].status = 0

\* The step of thread t that leaves the loop and chooses the general address.
Chooses(t) == LoopDone(t) /\ frame'[t].pc = "finish"

\* Thread t took the enumeration path and getifaddrs failed.
EnumFailed(t) ==
  Built(t) /\ ~ink_inet_is_ip(frame[t].addr) /\ frame[t].status # 0

\* Thread t was given an address.
Explicit(t) == Built(t) /\ ink_inet_is_ip(frame[t].addr)

\* The object thread t is working on is still under construction.
Constructing(t) == frame[t].pc \in {"ctor", "enum", "loop", "finish"}

Ready == _instance # NULL

Addr4(x) == [family |-> "AF_INET", text |-> x]
Addr6(x) == [family |-> "AF_INET6", text |-> x]

\* ---------------------------------------------------------------- claims

\* C1: instance() returns only in state Ready, and then the installed, fully
\* constructed object; called while Machine::_instance is still NULL (no
\* init() yet, or the constructor still running) it aborts.
C1_InstanceOnlyWhenReady ==
  /\ ret # NoRet =>
       /\ ret # NULL
       /\ ret \in 1..Len(heap)
       /\ Ready
       /\ \A t \in Threads : frame[t].this = ret => ~Constructing(t)
  /\ ~Ready => ret = NoRet
  /\ aborted = MsgInstance => ~Ready

C1_Witness ==
  /\ aborted = MsgInstance
  /\ ~Ready
  /\ Len(heap) = 1
  /\ ink_inet_is_ip4(heap[1].ip4)
  /\ heap[1].ip = ZeroAddr

\* C2: with init() calls made one after another at most one Machine is ever
\* constructed and installed; an init() that finds the singleton Ready
\* aborts before allocating or constructing anything and leaves
\* Machine::_instance as it was.
C2_InitOnce ==
  /\ Len(heap) <= 1
  /\ Ready => _instance = 1
  /\ \A t \in Threads :
       /\ (Constructing(t) \/ frame[t].pc = "install") => ~Ready
       /\ (frame[t].pc = "init" /\ Ready) => frame[t].this = NULL
       /\ frame[t].pc = "return" => _instance = frame[t].this
  /\ aborted = MsgInitTwice =>
       /\ Ready
       /\ \E t \in Threads : frame[t].pc = "init"

C2_Witness ==
  /\ aborted = MsgInitTwice
  /\ Ready
  /\ Len(heap) = 1
  /\ \E t \in Threads :
       frame[t].pc = "init" /\ ink_inet_is_ip(frame[t].addr)

\* C3: in every Ready state the general address ip equals the stored ip4 or
\* the stored ip6.
C3_PrimaryIsOneOfBoth ==
  Ready => \/ heap[_instance].ip = heap[_instance].ip4
           \/ heap[_instance].ip = heap[_instance].ip6

C3_Witness ==
  /\ Ready
  /\ ink_inet_is_ip4(heap[_instance].ip4)
  /\ ink_inet_is_ip6(heap[_instance].ip6)
  /\ heap[_instance].ip = heap[_instance].ip6

\* C4: while and after the interface list is walked, the type of the stored
\* best of each family is the highest type among the walked entries of that
\* family (so entries of the other family never count), the stored address
\* stays zero when there is no usable entry of the family, and the final
\* types are the same for every permutation of the list.
C4_BestRankIsMax ==
  \A t \in Threads :
    InLoop(t) =>
      LET f == frame[t]
          k == Walked(t)
          r4 == MaxRank(f.ifa_addrs, k, "AF_INET")
          r6 == MaxRank(f.ifa_addrs, k, "AF_INET6")
      IN /\ f.ip4_type = r4
         /\ f.ip6_type = r6
         /\ classify(This(t).ip4) = r4
         /\ classify(This(t).ip6) = r6
         /\ r4 = NA => This(t).ip4 = ZeroAddr
         /\ r6 = NA => This(t).ip6 = ZeroAddr
         /\ r4 # NA => ink_inet_is_ip4(This(t).ip4)
         /\ r6 # NA => ink_inet_is_ip6(This(t).ip6)
         /\ (Running /\ LoopDone(t)) =>
              \A p \in Permutations(1..Len(f.ifa_addrs)) :
                LET q == Scan(Permuted(f.ifa_addrs, p), Len(f.ifa_addrs))
                IN q.ip4_type = f.ip4_type /\ q.ip6_type = f.ip6_type

C4_Witness ==
  \E t \in Threads :
    /\ LoopDone(t)
    /\ frame[t].ifa_addrs =
         <<Addr4("10.1.2.3"), Addr4("8.8.8.8"), Addr4("127.0.0.1")>>
    /\ This(t).ip4 = Addr4("8.8.8.8")
    /\ This(t).ip6 = ZeroAddr

\* C5: the stored best of a family is the earliest walked entry of that
\* family that has the family's highest type: an entry of equal or lower
\* type never displaces the stored address.
C5_FirstSeenWins ==
  \A t \in Threads :
    InLoop(t) =>
      /\ This(t).ip4 = FirstBest(frame[t].ifa_addrs, Walked(t), "AF_INET")
      /\ This(t).ip6 = FirstBest(frame[t].ifa_addrs, Walked(t), "AF_INET6")

C5_Witness ==
  \E t \in Threads :
    /\ LoopDone(t)
    /\ frame[t].ifa_addrs =
         <<Addr4("8.8.4.4"), Addr4("8.8.8.8"), Addr4("10.1.2.3")>>
    /\ This(t).ip4 = Addr4("8.8.4.4")

\* C6: after a successful enumeration ip is the stored ip4 when the type of
\* ip4 is at least the type of ip6 (zero when both are unusable) and the
\* stored ip6 when the type of ip6 is strictly higher; the step that leaves
\* the loop chooses by the highest types of the two families in the list,
\* and the list [127.0.0.1, 10.1.2.3, 2001:db8::1] gives ip = 2001:db8::1.
C6_Stored(m) ==
  LET r4 == classify(m.ip4)
      r6 == classify(m.ip6)
  IN /\ r4 >= r6 => m.ip = m.ip4
     /\ r6 > r4 => m.ip = m.ip6
     /\ (r4 = NA /\ r6 = NA) => m.ip = ZeroAddr

C6_Step(t) ==
  LET list == frame[t].ifa_addrs
      m == heap'[frame[t].this]
  IN /\ m.ip4 = FirstBest(list, Len(list), "AF_INET")
     /\ m.ip6 = FirstBest(list, Len(list), "AF_INET6")
     /\ m.ip = IF MaxRank(list, Len(list), "AF_INET")
                    >= MaxRank(list, Len(list), "AF_INET6")
                THEN m.ip4 ELSE m.ip6
     /\ list = <<Addr4("127.0.0.1"), Addr4("10.1.2.3"), Addr6("2001:db8::1")>>
        => /\ m.ip4 = Addr4("10.1.2.3")
           /\ m.ip6 = Addr6("2001:db8::1")
           /\ m.ip = Addr6("2001:db8::1")

C6_DefaultAddress ==
  /\ [](\A t \in Threads : Enumerated(t) => C6_Stored(This(t)))
  /\ [][\A t \in Threads : Chooses(t) => C6_Step(t)]_vars

C6_Witness ==
  \E t \in Threads :
    /\ frame[t].pc = "return"
    /\ Enumerated(t)
    /\ Ready
    /\ ret = _instance
    /\ heap[ret].ip4 = Addr4("10.1.2.3")
    /\ heap[ret].ip6 = Addr6("2001:db8::1")
    /\ heap[ret].ip = Addr6("2001:db8::1")

\* C7: given a concrete IP address, init() never enumerates the interfaces,
\* and the object has ip = addr, the field of addr's family = addr and the
\* field of the other family zero, whatever the type of addr.
C7_ExplicitAddress ==
  \A t \in Threads :
    /\ ink_inet_is_ip(frame[t].addr) =>
         /\ frame[t].pc \notin {"enum", "loop"}
         /\ frame[t].ifa_addrs = <<>>
    /\ Explicit(t) =>
         LET m == This(t)
             a == frame[t].addr
         IN /\ m.ip = a
            /\ ink_inet_is_ip4(a) => (m.ip4 = a /\ m.ip6 = ZeroAddr)
            /\ ink_inet_is_ip6(a) => (m.ip6 = a /\ m.ip4 = ZeroAddr)

C7_Witness ==
  \E t \in Threads :
    /\ frame[t].pc = "return"
    /\ frame[t].addr = Addr4("127.0.0.1")
    /\ Ready
    /\ ret = _instance
    /\ heap[ret].ip = Addr4("127.0.0.1")
    /\ heap[ret].ip6 = ZeroAddr

\* C8: a failed enumeration leaves ip, ip4 and ip6 zero with the hostname
\* set; a failed reverse lookup leaves the addresses as on success and the
\* hostname unset, name argument or not; neither aborts the process: the
\* process only ever dies at one of the three assertions, and what
\* instance() returns is the installed object.
C8_RecoverableFailures ==
  /\ \A t \in Threads :
       /\ EnumFailed(t) =>
            /\ This(t).ip = ZeroAddr
            /\ This(t).ip4 = ZeroAddr
            /\ This(t).ip6 = ZeroAddr
            /\ This(t).hostname # NullStr
       /\ (Explicit(t) /\ frame[t].status # 0) =>
            /\ This(t).hostname = NullStr
            /\ This(t).ip = frame[t].addr
            /\ This(t).ip4 =
                 (IF ink_inet_is_ip4(frame[t].addr) THEN frame[t].addr
                  ELSE ZeroAddr)
            /\ This(t).ip6 =
                 (IF ink_inet_is_ip6(frame[t].addr) THEN frame[t].addr
                  ELSE ZeroAddr)
       /\ (Built(t) /\ frame[t].pc # "finish") =>
            This(t).hostname_len =
              (IF This(t).hostname = NullStr THEN 0
               ELSE strlen(This(t).hostname))
  /\ aborted # "" =>
       \/ aborted = MsgInstance /\ ~Ready
       \/ /\ aborted = MsgInitTwice
          /\ Ready
          /\ \E t \in Threads : frame[t].pc = "init"
       \/ /\ aborted = MsgGethostname
          /\ \E t \in Threads :
               /\ frame[t].pc = "ctor"
               /\ ~ink_inet_is_ip(frame[t].addr)
               /\ frame[t].the_hostname = NullStr
               /\ This(t) = ZeroMachine
  /\ ret # NoRet => ret = _instance

C8_Witness ==
  \E t \in Threads :
    /\ frame[t].pc = "return"
    /\ EnumFailed(t)
    /\ ret = frame[t].this
    /\ heap[ret].ip = ZeroAddr
    /\ heap[ret].hostname = LocalHostname

\* C9: without a concrete address the object always carries a hostname: the
\* supplied name when there is one (gethostname is then not called), else
\* what gethostname delivered; a failing gethostname aborts before anything
\* is installed; a Ready object without hostname was built from an explicit
\* address whose reverse lookup failed.
C9_Hostname ==
  /\ \A t \in Threads :
       /\ (frame[t].pc \in {"enum", "loop"} \/ Built(t))
          /\ ~ink_inet_is_ip(frame[t].addr) =>
            /\ This(t).hostname # NullStr
            /\ frame[t].the_hostname # NullStr
            /\ IF frame[t].the_hostname = LocalhostBuf
                 THEN /\ frame[t].localhost = LocalHostname
                      /\ This(t).hostname = LocalHostname
                 ELSE /\ frame[t].localhost = Uninit
                      /\ frame[t].the_hostname \in Names
                      /\ This(t).hostname = frame[t].the_hostname
       /\ (Built(t) /\ This(t).hostname = NullStr) =>
            ink_inet_is_ip(frame[t].addr) /\ frame[t].status # 0
  /\ aborted = MsgGethostname =>
       /\ ~Ready
       /\ \E t \in Threads :
            /\ frame[t].pc = "ctor"
            /\ frame[t].the_hostname = NullStr
            /\ ~ink_inet_is_ip(frame[t].addr)
  /\ (Ready /\ heap[_instance].hostname = NullStr) =>
       ink_inet_is_ip(heap[_instance].ip)

C9_Witness ==
  /\ aborted = MsgGethostname
  /\ ~Ready
  /\ Len(heap) = 1

\* C10: with overlapping init() calls at most one Machine is ever constructed
\* and installed, and what instance() returned stays the installed instance.
C10_ExactlyOnceConcurrent ==
  /\ Cardinality({ i \in 1..Len(heap) :
                     \A t \in Threads :
                       frame[t].this = i => ~Constructing(t) }) <= 1
  /\ ret # NoRet => ret = _instance
====
